---------------------------- MODULE Spec2Model ----------------------------
(***************************************************************************)
(* Range queries of the etcd client (src/src/kv/range.rs).                 *)
(*                                                                         *)
(* Two state machines share the variables below.                           *)
(*   Spec        the RangeRequest builder: RangeRequest::new, a sequence   *)
(*               of fluent configuration calls, then the conversion into   *)
(*               the wire request etcdserverpb::RangeRequest.              *)
(*   DecodeSpec  the decoding of a raw etcdserverpb::RangeResponse into    *)
(*               the domain RangeResponse.                                 *)
(*                                                                         *)
(* The code's integers are 64 bits wide.  The model keeps the two's        *)
(* complement arithmetic of the casts and scales the width to WordBits.    *)
(***************************************************************************)
EXTENDS Integers, Sequences, FiniteSets

VARIABLES
    interval,   \* the KeyRange handed to RangeRequest::new
    request,    \* the RangeRequest being built: [proto |-> wire request]
    ops,        \* history: the builder calls applied so far, oldest first
    pc,         \* "building" | "finalized" | "decoding" | "returned" | "panicked"
    wire,       \* the finalized etcdserverpb::RangeRequest, or NoRequest
    reply,      \* the raw etcdserverpb::RangeResponse being decoded, or NoReply
    decoded     \* the RangeResponse the decoder returned, or NoResult

vars == <<interval, request, ops, pc, wire, reply, decoded>>

---------------------------------------------------------------------------
(* Bounds of the model *)

\* Width of the model's machine integers (the code's i64 / u64 are 64 bits).
WordBits == 6
\* Longest sequence of builder calls explored.
MaxOps == 3
\* Longest kvs sequence of a raw reply.
MaxKvs == 2

---------------------------------------------------------------------------
(* Machine integers *)

TwoToW == 2 ^ WordBits
I64_MAX == 2 ^ (WordBits - 1) - 1
I64_MIN == 0 - 2 ^ (WordBits - 1)

\* `x as i64` for a u64 x: the same bits read as two's complement.
as_i64(x) == IF x > I64_MAX THEN x - TwoToW ELSE x

\* `x as u64` for an i64 x: the same bits read as unsigned.
as_u64(x) == IF x < 0 THEN x + TwoToW ELSE x

---------------------------------------------------------------------------
(* Wire enumerations of etcdserverpb::range_request *)

\* SortTarget as i32
SortTarget_as_i32(t) ==
    CASE t = "Key"     -> 0
      [] t = "Version" -> 1
      [] t = "Create"  -> 2
      [] t = "Mod"     -> 3
      [] t = "Value"   -> 4

\* etcdserverpb::range_request::SortOrder as i32
ProtoSortOrder_as_i32(o) ==
    CASE o = "None"    -> 0
      [] o = "Ascend"  -> 1
      [] o = "Descend" -> 2

\* enum SortOrder { Ascending, Descending }
SortOrder == {"Ascending", "Descending"}

\* impl From<SortOrder> for etcdserverpb::range_request::SortOrder
SortOrder_into_proto(value) ==
    CASE value = "Ascending"  -> "Ascend"
      [] value = "Descending" -> "Descend"

\* impl From<SortOrder> for i32
SortOrder_into_i32(value) == ProtoSortOrder_as_i32(SortOrder_into_proto(value))

---------------------------------------------------------------------------
(* RangeRequest: the builder *)

\* RangeRequest::new
new(key_range) ==
    [proto |->
        [key                 |-> key_range.key,
         range_end           |-> key_range.range_end,
         limit               |-> 0,
         revision            |-> 0,
         sort_order          |-> 0,
         sort_target         |-> 0,
         serializable        |-> FALSE,
         keys_only           |-> FALSE,
         count_only          |-> FALSE,
         min_mod_revision    |-> 0,
         max_mod_revision    |-> 0,
         min_create_revision |-> 0,
         max_create_revision |-> 0]]

limit(self, l) == [self EXCEPT !.proto.limit = as_i64(l)]

\* Variant of revision: a non-positive revision ("latest") is dropped instead
\* of stored.
revision_ignores_nonpositive(self, r) ==
    IF r > 0 THEN [self EXCEPT !.proto.revision = r] ELSE self

revision(self, r) == [self EXCEPT !.proto.revision = r]

\* Variant of keys_only: the flag next to keys_only is written.
keys_only_wrong_field(self) == [self EXCEPT !.proto.serializable = TRUE]

keys_only(self) == [self EXCEPT !.proto.keys_only = TRUE]

\* Variant of count_only: count-only and keys-only exclude each other.
count_only_exclusive(self) ==
    [self EXCEPT !.proto.count_only = TRUE, !.proto.keys_only = FALSE]

count_only(self) == [self EXCEPT !.proto.count_only = TRUE]

\* Variant of min_mod_revision: the upper bound is raised to the lower one.
min_mod_revision_raises_max(self, r) ==
    [self EXCEPT !.proto.min_mod_revision = r,
                 !.proto.max_mod_revision =
                     IF self.proto.max_mod_revision < r
                     THEN r ELSE self.proto.max_mod_revision]

min_mod_revision(self, r) == [self EXCEPT !.proto.min_mod_revision = r]

max_mod_revision(self, r) == [self EXCEPT !.proto.max_mod_revision = r]

min_create_revision(self, r) == [self EXCEPT !.proto.min_create_revision = r]

max_create_revision(self, r) == [self EXCEPT !.proto.max_create_revision = r]

sort_by_key(self, order) ==
    [self EXCEPT !.proto.sort_target = SortTarget_as_i32("Key"),
                 !.proto.sort_order  = SortOrder_into_i32(order)]

\* Variant of sort_by_version: only the order is written.
sort_by_version_order_only(self, order) ==
    [self EXCEPT !.proto.sort_order = SortOrder_into_i32(order)]

sort_by_version(self, order) ==
    [self EXCEPT !.proto.sort_target = SortTarget_as_i32("Version"),
                 !.proto.sort_order  = SortOrder_into_i32(order)]

sort_by_create_revision(self, order) ==
    [self EXCEPT !.proto.sort_target = SortTarget_as_i32("Create"),
                 !.proto.sort_order  = SortOrder_into_i32(order)]

sort_by_mod_revision(self, order) ==
    [self EXCEPT !.proto.sort_target = SortTarget_as_i32("Mod"),
                 !.proto.sort_order  = SortOrder_into_i32(order)]

\* Variant of sort_by_value: an earlier sort policy is kept.
sort_by_value_first_wins(self, order) ==
    IF self.proto.sort_order # 0
    THEN self
    ELSE [self EXCEPT !.proto.sort_target = SortTarget_as_i32("Value"),
                      !.proto.sort_order  = SortOrder_into_i32(order)]

sort_by_value(self, order) ==
    [self EXCEPT !.proto.sort_target = SortTarget_as_i32("Value"),
                 !.proto.sort_order  = SortOrder_into_i32(order)]

\* impl From<RangeRequest> for etcdserverpb::RangeRequest
RangeRequest_into_proto(x) == x.proto

---------------------------------------------------------------------------
(* Inputs of the builder *)

\* Byte strings are sequences of byte values: "a" is <<97>>, "b" is <<98>>.
KeyRanges ==
    { [key |-> <<97>>, range_end |-> <<98>>],
      [key |-> <<97>>, range_end |-> <<>>] }

\* u64 arguments of limit: zero, a small value, and the two values around
\* the point where the unsigned range leaves the signed one.
Limits == {0, 10, I64_MAX, I64_MAX + 1}

\* i64 arguments of revision.
Revisions == {-1, 0, I64_MAX}

\* i64 arguments of the four revision-bound setters.
RevisionBounds == {0, 5}

NoOrder == "-"

\* One builder call: the method's name and its argument.
Op(name, n, order) == [name |-> name, n |-> n, order |-> order]

SortNames ==
    {"sort_by_key", "sort_by_version", "sort_by_create_revision",
     "sort_by_mod_revision", "sort_by_value"}

IsSort(op) == op.name \in SortNames

\* The method a recorded call names, applied to the builder.
apply(self, op) ==
    CASE op.name = "limit"                   -> limit(self, op.n)
      [] op.name = "revision"                -> revision(self, op.n)
      [] op.name = "keys_only"               -> keys_only(self)
      [] op.name = "count_only"              -> count_only(self)
      [] op.name = "min_mod_revision"        -> min_mod_revision(self, op.n)
      [] op.name = "max_mod_revision"        -> max_mod_revision(self, op.n)
      [] op.name = "min_create_revision"     -> min_create_revision(self, op.n)
      [] op.name = "max_create_revision"     -> max_create_revision(self, op.n)
      [] op.name = "sort_by_key"             -> sort_by_key(self, op.order)
      [] op.name = "sort_by_version"         -> sort_by_version(self, op.order)
      [] op.name = "sort_by_create_revision" -> sort_by_create_revision(self, op.order)
      [] op.name = "sort_by_mod_revision"    -> sort_by_mod_revision(self, op.order)
      [] op.name = "sort_by_value"           -> sort_by_value(self, op.order)

\* The builder after the calls of s, in order, starting from self.
RECURSIVE Chain(_, _)
Chain(self, s) ==
    IF s = <<>> THEN self ELSE Chain(apply(self, Head(s)), Tail(s))

NoRequest == [absent |-> TRUE]
NoReply == [absent |-> TRUE]
NoResult == [absent |-> TRUE]

---------------------------------------------------------------------------
(* The builder's state machine *)

Init ==
    /\ interval \in KeyRanges
    /\ request = new(interval)
    /\ ops = <<>>
    /\ pc = "building"
    /\ wire = NoRequest
    /\ reply = NoReply
    /\ decoded = NoResult

\* A fluent call consumes the builder and returns it updated; each action
\* below is one call of the method it is named after.

Limit ==
    \E l \in Limits :
        /\ pc = "building"
        /\ Len(ops) < MaxOps
        /\ request' = limit(request, l)
        /\ ops' = Append(ops, Op("limit", l, NoOrder))
        /\ UNCHANGED <<interval, pc, wire, reply, decoded>>

Revision ==
    \E r \in Revisions :
        /\ pc = "building"
        /\ Len(ops) < MaxOps
        /\ request' = revision(request, r)
        /\ ops' = Append(ops, Op("revision", r, NoOrder))
        /\ UNCHANGED <<interval, pc, wire, reply, decoded>>

KeysOnly ==
    /\ pc = "building"
    /\ Len(ops) < MaxOps
    /\ request' = keys_only(request)
    /\ ops' = Append(ops, Op("keys_only", 0, NoOrder))
    /\ UNCHANGED <<interval, pc, wire, reply, decoded>>

CountOnly ==
    /\ pc = "building"
    /\ Len(ops) < MaxOps
    /\ request' = count_only(request)
    /\ ops' = Append(ops, Op("count_only", 0, NoOrder))
    /\ UNCHANGED <<interval, pc, wire, reply, decoded>>

MinModRevision ==
    \E r \in RevisionBounds :
        /\ pc = "building"
        /\ Len(ops) < MaxOps
        /\ request' = min_mod_revision(request, r)
        /\ ops' = Append(ops, Op("min_mod_revision", r, NoOrder))
        /\ UNCHANGED <<interval, pc, wire, reply, decoded>>

MaxModRevision ==
    \E r \in RevisionBounds :
        /\ pc = "building"
        /\ Len(ops) < MaxOps
        /\ request' = max_mod_revision(request, r)
        /\ ops' = Append(ops, Op("max_mod_revision", r, NoOrder))
        /\ UNCHANGED <<interval, pc, wire, reply, decoded>>

MinCreateRevision ==
    \E r \in RevisionBounds :
        /\ pc = "building"
        /\ Len(ops) < MaxOps
        /\ request' = min_create_revision(request, r)
        /\ ops' = Append(ops, Op("min_create_revision", r, NoOrder))
        /\ UNCHANGED <<interval, pc, wire, reply, decoded>>

MaxCreateRevision ==
    \E r \in RevisionBounds :
        /\ pc = "building"
        /\ Len(ops) < MaxOps
        /\ request' = max_create_revision(request, r)
        /\ ops' = Append(ops, Op("max_create_revision", r, NoOrder))
        /\ UNCHANGED <<interval, pc, wire, reply, decoded>>

SortByKey ==
    \E order \in SortOrder :
        /\ pc = "building"
        /\ Len(ops) < MaxOps
        /\ request' = sort_by_key(request, order)
        /\ ops' = Append(ops, Op("sort_by_key", 0, order))
        /\ UNCHANGED <<interval, pc, wire, reply, decoded>>

SortByVersion ==
    \E order \in SortOrder :
        /\ pc = "building"
        /\ Len(ops) < MaxOps
        /\ request' = sort_by_version(request, order)
        /\ ops' = Append(ops, Op("sort_by_version", 0, order))
        /\ UNCHANGED <<interval, pc, wire, reply, decoded>>

SortByCreateRevision ==
    \E order \in SortOrder :
        /\ pc = "building"
        /\ Len(ops) < MaxOps
        /\ request' = sort_by_create_revision(request, order)
        /\ ops' = Append(ops, Op("sort_by_create_revision", 0, order))
        /\ UNCHANGED <<interval, pc, wire, reply, decoded>>

SortByModRevision ==
    \E order \in SortOrder :
        /\ pc = "building"
        /\ Len(ops) < MaxOps
        /\ request' = sort_by_mod_revision(request, order)
        /\ ops' = Append(ops, Op("sort_by_mod_revision", 0, order))
        /\ UNCHANGED <<interval, pc, wire, reply, decoded>>

SortByValue ==
    \E order \in SortOrder :
        /\ pc = "building"
        /\ Len(ops) < MaxOps
        /\ request' = sort_by_value(request, order)
        /\ ops' = Append(ops, Op("sort_by_value", 0, order))
        /\ UNCHANGED <<interval, pc, wire, reply, decoded>>

\* The builder is converted into the wire request and is gone afterwards.
Finalize ==
    /\ pc = "building"
    /\ wire' = RangeRequest_into_proto(request)
    /\ pc' = "finalized"
    /\ UNCHANGED <<interval, request, ops, reply, decoded>>

Next ==
    \/ Limit
    \/ Revision
    \/ KeysOnly
    \/ CountOnly
    \/ MinModRevision
    \/ MaxModRevision
    \/ MinCreateRevision
    \/ MaxCreateRevision
    \/ SortByKey
    \/ SortByVersion
    \/ SortByCreateRevision
    \/ SortByModRevision
    \/ SortByValue
    \/ Finalize

Spec == Init /\ [][Next]_vars

---------------------------------------------------------------------------
(* RangeResponse: the decoder *)

\* Option<T>
None == [is_some |-> FALSE]
Some(v) == [is_some |-> TRUE, value |-> v]

\* How a call ends: it returns a value or it panics with a message.
Returned(v) == [kind |-> "value", value |-> v]
Panicked(msg) == [kind |-> "panic", message |-> msg]

\* impl From<etcdserverpb::ResponseHeader> for ResponseHeader
ResponseHeader_from(proto) ==
    [cluster_id |-> proto.cluster_id,
     member_id  |-> proto.member_id,
     revision   |-> proto.revision,
     raft_term  |-> proto.raft_term]

\* impl From<mvccpb::KeyValue> for KeyValue
KeyValue_from(proto) ==
    [key             |-> proto.key,
     value           |-> proto.value,
     create_revision |-> proto.create_revision,
     mod_revision    |-> proto.mod_revision,
     version         |-> proto.version]

\* Variant of the decoder: has_more is derived from count.
RangeResponse_from_more_by_count(proto) ==
    IF ~proto.header.is_some
    THEN Panicked("must fetch header")
    ELSE Returned(
            [header   |-> ResponseHeader_from(proto.header.value),
             kvs      |-> [i \in 1..Len(proto.kvs) |-> KeyValue_from(proto.kvs[i])],
             has_more |-> proto.more /\ proto.count > Len(proto.kvs),
             count    |-> as_u64(proto.count)])

\* impl From<etcdserverpb::RangeResponse> for RangeResponse.  The struct's
\* fields are evaluated in order, so Option::expect on an absent header
\* panics before anything else is converted.
RangeResponse_from(proto) ==
    IF ~proto.header.is_some
    THEN Panicked("must fetch header")
    ELSE Returned(
            [header   |-> ResponseHeader_from(proto.header.value),
             kvs      |-> [i \in 1..Len(proto.kvs) |-> KeyValue_from(proto.kvs[i])],
             has_more |-> proto.more,
             count    |-> as_u64(proto.count)])

(* Inputs of the decoder *)

RawHeaders ==
    { [cluster_id |-> 1, member_id |-> 2, revision |-> 7, raft_term |-> 3],
      [cluster_id |-> 1, member_id |-> 4, revision |-> 0, raft_term |-> 1] }

RawKvs ==
    { [key |-> <<97>>, value |-> <<1>>, create_revision |-> 2,
       mod_revision |-> 5, version |-> 3],
      [key |-> <<98>>, value |-> <<>>, create_revision |-> 4,
       mod_revision |-> 4, version |-> 1] }

\* All sequences over S of length at most n.
RECURSIVE SeqsUpTo(_, _)
SeqsUpTo(S, n) ==
    IF n = 0 THEN {<<>>}
    ELSE LET shorter == SeqsUpTo(S, n - 1)
         IN  shorter \cup {Append(q, x) : q \in shorter, x \in S}

\* i64 values of the reply's count field.
RawCounts == {I64_MIN, -1, 0, 2, I64_MAX}

RawReplies ==
    [header : {None} \cup {Some(h) : h \in RawHeaders},
     kvs    : SeqsUpTo(RawKvs, MaxKvs),
     more   : BOOLEAN,
     count  : RawCounts]

(* The decoder's state machine *)

DecodeInit ==
    /\ interval \in KeyRanges
    /\ request = new(interval)
    /\ ops = <<>>
    /\ wire = RangeRequest_into_proto(request)
    /\ reply \in RawReplies
    /\ pc = "decoding"
    /\ decoded = NoResult

\* RangeResponse::from(reply)
Decode ==
    /\ pc = "decoding"
    /\ decoded' = RangeResponse_from(reply)
    /\ pc' = IF decoded'.kind = "panic" THEN "panicked" ELSE "returned"
    /\ UNCHANGED <<interval, request, ops, wire, reply>>

DecodeNext == Decode

DecodeSpec == DecodeInit /\ [][DecodeNext]_vars

---------------------------------------------------------------------------
(* What the history says about the calls made so far *)

\* Positions in the history of the calls to one of the methods `names`.
Calls(names) == {i \in 1..Len(ops) : ops[i].name \in names}

Called(names) == Calls(names) # {}

\* The last call to one of the methods `names`.
LastCall(names) ==
    LET S == Calls(names)
    IN  ops[CHOOSE i \in S : \A j \in S : j <= i]

\* The sort target a sort method's name stands for.
SortTargetOf(name) ==
    CASE name = "sort_by_key"             -> "Key"
      [] name = "sort_by_version"         -> "Version"
      [] name = "sort_by_create_revision" -> "Create"
      [] name = "sort_by_mod_revision"    -> "Mod"
      [] name = "sort_by_value"           -> "Value"

\* The wire pair (sort_target, sort_order) a sort call asks for.
SortPairOf(op) ==
    <<SortTarget_as_i32(SortTargetOf(op.name)),
      ProtoSortOrder_as_i32(IF op.order = "Ascending" THEN "Ascend" ELSE "Descend")>>

Finalized == pc = "finalized"

\* The history with the calls at positions i and i + 1 exchanged.
Swapped(s, i) ==
    [k \in 1..Len(s) |-> IF k = i THEN s[i + 1] ELSE IF k = i + 1 THEN s[i] ELSE s[k]]

\* Two calls the order-insensitivity contract covers: not both sort calls,
\* and not the same setter with different arguments.
Independent(a, b) ==
    /\ ~(IsSort(a) /\ IsSort(b))
    /\ ~(a.name = b.name /\ a # b)

---------------------------------------------------------------------------
(* Claims *)

\* C1: decoding a raw reply whose header is absent yields an explicit
\* MissingMetadata failure value, for every kvs, more and count: never a
\* panic and never a Range Result.
C1_MissingHeaderIsExplicitFailure ==
    (pc # "decoding" /\ ~reply.header.is_some) =>
        /\ decoded.kind = "error"
        /\ decoded.error = "MissingMetadata"

\* C2: sort calls are last-write-wins: once a sort call is in the sequence,
\* the finalized query's (sort_target, sort_order) is the pair of the last
\* sort call, whatever sort and non-sort calls surround it.
C2_SortLastWriteWins ==
    (Finalized /\ Called(SortNames)) =>
        <<wire.sort_target, wire.sort_order>> = SortPairOf(LastCall(SortNames))

C2_Witness ==
    /\ Finalized
    /\ Len(ops) = 3
    /\ ops[1] = Op("sort_by_key", 0, "Ascending")
    /\ ops[2] = Op("sort_by_value", 0, "Descending")
    /\ ops[3].name = "limit"
    /\ wire.sort_target = 4
    /\ wire.sort_order = 2

\* The sort fields of a query q agree with the history: without a sort call
\* they say "no sorting requested" (order NONE, default target); with one,
\* the order is ASCEND or DESCEND and the pair is the pair of one single call.
SortPairConsistent(q) ==
    IF ~Called(SortNames)
    THEN q.sort_order = ProtoSortOrder_as_i32("None") /\ q.sort_target = 0
    ELSE /\ q.sort_order \in {ProtoSortOrder_as_i32("Ascend"),
                              ProtoSortOrder_as_i32("Descend")}
         /\ \E i \in Calls(SortNames) :
                <<q.sort_target, q.sort_order>> = SortPairOf(ops[i])

\* C3: sort target and sort order are always set together, in every builder
\* state and in the finalized query.
C3_SortPairSetTogether ==
    /\ SortPairConsistent(request.proto)
    /\ Finalized => SortPairConsistent(wire)

C3_Witness ==
    /\ Finalized
    /\ Len(ops) = 3
    /\ ops[1] = Op("sort_by_value", 0, "Descending")
    /\ ops[2] = Op("sort_by_version", 0, "Ascending")
    /\ ops[3].name = "keys_only"
    /\ wire.sort_target = 1
    /\ wire.sort_order = 1

\* The revision field v honours the last set-revision call.
RevisionHonoured(v) ==
    LET R == LastCall({"revision"}).n
    IN  /\ R > 0  => v = R
        /\ R <= 0 => v <= 0

\* C4: after set-revision(R), R > 0 is preserved exactly and R <= 0 leaves
\* a revision <= 0 ("latest"); later calls to other methods and the
\* finalization do not alter it.
C4_RevisionPreserved ==
    Called({"revision"}) =>
        /\ RevisionHonoured(request.proto.revision)
        /\ Finalized => RevisionHonoured(wire.revision)

C4_Witness ==
    /\ Finalized
    /\ Len(ops) = 3
    /\ ops[1] = Op("revision", -1, NoOrder)
    /\ ops[2] = Op("revision", I64_MAX, NoOrder)
    /\ ops[3].name = "sort_by_key"
    /\ wire.revision = I64_MAX

\* C5: for every unsigned limit L handed to set-limit, the finalized
\* query's signed wire limit is non-negative and equals L, and the wire
\* limit of L = 0 is 0, unlike that of any positive L.
C5_LimitNonNegative ==
    (Finalized /\ Called({"limit"})) =>
        LET L == LastCall({"limit"}).n
        IN  /\ wire.limit >= 0
            /\ wire.limit = L
            /\ (L = 0) <=> (wire.limit = 0)

\* The value the field of setter `name` must hold: the argument of the last
\* call to it, or the default when it was never called.
Expected(name, default) ==
    IF Called({name}) THEN LastCall({name}).n ELSE default

\* The key bytes, the flags, the revision, the four revision bounds and the
\* sort pair of q are those the history and the defaults give.
FrameExceptLimit(q) ==
    /\ q.key = interval.key
    /\ q.range_end = interval.range_end
    /\ q.revision = Expected("revision", 0)
    /\ q.keys_only = Called({"keys_only"})
    /\ q.count_only = Called({"count_only"})
    /\ q.min_mod_revision = Expected("min_mod_revision", 0)
    /\ q.max_mod_revision = Expected("max_mod_revision", 0)
    /\ q.min_create_revision = Expected("min_create_revision", 0)
    /\ q.max_create_revision = Expected("max_create_revision", 0)
    /\ Called(SortNames) =>
           <<q.sort_target, q.sort_order>> = SortPairOf(LastCall(SortNames))

\* C6: round trip with defaults: the finalized query has the interval's
\* bytes, every field a call targeted holds the value the last such call
\* gave, and every other field holds its default.
C6_RoundTripWithDefaults ==
    Finalized =>
        /\ FrameExceptLimit(wire)
        /\ wire.limit = Expected("limit", 0)

\* What remains of C6 when the limit field is left out (it holds in every
\* reachable state; the limit field is the subject of C5).
C6_FrameHoldsExceptLimit ==
    Finalized => FrameExceptLimit(wire)

\* C7: decoding a raw reply that carries a header returns a Range Result
\* whose has_more is the reply's more flag and whose pairs are the reply's
\* kvs, one for one and in order, whatever the reply's count.
C7_DecodeKeepsPairsAndMore ==
    (pc # "decoding" /\ reply.header.is_some) =>
        /\ decoded.kind = "value"
        /\ decoded.value.has_more = reply.more
        /\ Len(decoded.value.kvs) = Len(reply.kvs)
        /\ \A i \in 1..Len(reply.kvs) :
               decoded.value.kvs[i] = KeyValue_from(reply.kvs[i])

C7_Witness ==
    /\ pc = "returned"
    /\ reply.more
    /\ reply.count = 0
    /\ Len(reply.kvs) = 2
    /\ reply.kvs[1] # reply.kvs[2]
    /\ decoded.value.has_more
    /\ Len(decoded.value.kvs) = 2

\* C8: keys_only and count_only are independently settable: each flag is
\* true exactly when its own method was called, so each call leaves the
\* other flag alone, and after both calls both are true in the finalized
\* query.
C8_FlagsIndependent ==
    /\ request.proto.keys_only = Called({"keys_only"})
    /\ request.proto.count_only = Called({"count_only"})
    /\ Finalized =>
           /\ wire.keys_only = Called({"keys_only"})
           /\ wire.count_only = Called({"count_only"})

C8_Witness ==
    /\ Finalized
    /\ Len(ops) = 3
    /\ ops[1].name = "count_only"
    /\ ops[2].name = "revision"
    /\ ops[3].name = "keys_only"
    /\ wire.keys_only
    /\ wire.count_only

\* C9: builder calls are order-insensitive: exchanging two adjacent calls
\* that are not both sort calls and not the same setter with different
\* arguments, anywhere in the sequence, yields the same finalized query.
C9_OrderInsensitive ==
    Finalized =>
        \A i \in 1..(Len(ops) - 1) :
            Independent(ops[i], ops[i + 1]) =>
                RangeRequest_into_proto(Chain(new(interval), Swapped(ops, i))) = wire

C9_Witness ==
    /\ Finalized
    /\ Len(ops) = 3
    /\ ops[1].name = "min_mod_revision" /\ ops[1].n = 5
    /\ ops[2].name = "max_mod_revision" /\ ops[2].n = 0
    /\ ops[3].name = "sort_by_mod_revision"
    /\ Independent(ops[1], ops[2])
    /\ Independent(ops[2], ops[3])

\* C10: the serializable flag is false in every builder state and in every
\* finalized query, and keys_only and count_only are monotone: once true,
\* no step resets them.
C10_SerializableNeverSetFlagsMonotone ==
    /\ [](/\ ~request.proto.serializable
          /\ Finalized => ~wire.serializable)
    /\ [][/\ request.proto.keys_only => request'.proto.keys_only
          /\ request.proto.count_only => request'.proto.count_only]_vars

C10_Witness ==
    /\ Finalized
    /\ Len(ops) = 3
    /\ ops[1].name = "keys_only"
    /\ ops[2].name = "count_only"
    /\ ops[3].name = "limit"
    /\ wire.keys_only
    /\ wire.count_only
    /\ ~wire.serializable

====
